---------------------------- MODULE Spec2Model ----------------------------
(***************************************************************************)
(* Injective transformation operators of topi (topi/python/topi/           *)
(* transform.py): expand_dims, transpose, reshape, concatenate and split.  *)
(*                                                                         *)
(* A tensor is a node of the computation graph: a placeholder, or the      *)
(* result of tvm.compute(shape, fcompute).  tvm.compute calls fcompute     *)
(* once, on index variables, while the node is built; the node keeps what  *)
(* the closure captured, and <op>_compute gives the expression the closure *)
(* builds for an output coordinate.  Axes and coordinates are 0-based as   *)
(* in the source; TLA+ sequences are 1-based, hence the "+ 1" at accesses. *)
(***************************************************************************)
EXTENDS Integers, Sequences, FiniteSets, TLC

VARIABLES graph, calls

vars == <<graph, calls>>

(***************************************************************************)
(* Bounds of the model.                                                    *)
(***************************************************************************)
MaxRank == 2
MaxDim == 3
MaxInputs == 3
MaxSize == 2
MaxNewAxis == 2
MaxBoundaries == 2

(***************************************************************************)
(* Python sequences.                                                       *)
(***************************************************************************)
Min(a, b) == IF a < b THEN a ELSE b
Max(a, b) == IF a < b THEN b ELSE a

SeqsUpTo(S, n) == UNION {[1..m -> S] : m \in 0..n}

\* s[start:stop] of a Python list or tuple
PySlice(s, start, stop) ==
    LET n  == Len(s)
        st == IF start < 0 THEN Max(start + n, 0) ELSE Min(start, n)
        sp == IF stop < 0 THEN Max(stop + n, 0) ELSE Min(stop, n)
    IN  IF sp <= st THEN << >> ELSE SubSeq(s, st + 1, sp)

\* s[i] of a Python list or tuple raises IndexError outside [-len, len)
PyIndexOk(s, i) == -Len(s) <= i /\ i < Len(s)
PyAt(s, i) == IF i < 0 THEN s[i + Len(s) + 1] ELSE s[i + 1]

\* [f(i) for i in range(lo, hi)]
RangeSeq(lo, hi) == IF hi <= lo THEN << >> ELSE [j \in 1..(hi - lo) |-> lo + j - 1]

RECURSIVE SumSeq(_)
SumSeq(s) == IF s = << >> THEN 0 ELSE s[1] + SumSeq(Tail(s))

RECURSIVE Product(_)
Product(s) == IF s = << >> THEN 1 ELSE s[1] * Product(Tail(s))

IsSorted(s) == \A i \in 1..(Len(s) - 1) : s[i] <= s[i + 1]

(***************************************************************************)
(* Shapes and coordinates.                                                 *)
(***************************************************************************)
Dims == 0..MaxDim
Shapes == SeqsUpTo(Dims, MaxRank)

\* the coordinates within a shape
RECURSIVE MaxOf(_)
MaxOf(s) == IF s = << >> THEN 0 ELSE Max(s[1], MaxOf(Tail(s)))

Coords(shape) == {c \in [1..Len(shape) -> 0..(MaxOf(shape) - 1)] :
                     \A i \in 1..Len(shape) : c[i] < shape[i]}

InBounds(idx, shape) ==
    /\ Len(idx) = Len(shape)
    /\ \A i \in 1..Len(shape) : 0 <= idx[i] /\ idx[i] < shape[i]

\* a.shape[i]: the container of a shape raises IndexError for i >= len; for a
\* negative i it either counts from the end or raises, as the container decides
ShapeIndexOk(shape, i, negative_index) ==
    /\ i < Len(shape)
    /\ i >= -Len(shape)
    /\ (i < 0 => negative_index = "wrap")
ShapeAt(shape, i) == PyAt(shape, i)

(***************************************************************************)
(* Expressions a coordinate function builds: a read of a tensor at index   *)
(* expressions, or tvm.select(cond, tval, fval).                           *)
(***************************************************************************)
Read(t, idx) == [e |-> "read", t |-> t, idx |-> idx]
Select(cond, tval, fval) == [e |-> "select", cond |-> cond, tval |-> tval, fval |-> fval]

\* every read of a tensor in an expression, the branches of every select included
RECURSIVE Reads(_)
Reads(x) == IF x.e = "read" THEN {[t |-> x.t, idx |-> x.idx]}
            ELSE Reads(x.tval) \cup Reads(x.fval)

RECURSIVE Selects(_)
Selects(x) == IF x.e = "read" THEN 0 ELSE 1 + Selects(x.tval) + Selects(x.fval)

\* the read a select cascade ends at: the branch its conditions choose
RECURSIVE Chosen(_)
Chosen(x) == IF x.e = "read" THEN [t |-> x.t, idx |-> x.idx]
             ELSE IF x.cond THEN Chosen(x.tval) ELSE Chosen(x.fval)

(***************************************************************************)
(* Graph nodes.  A node records its shape and what its fcompute closure    *)
(* captured from the operator call that built it.                          *)
(***************************************************************************)
Node(kind, shape, srcs, axis, num, seq, begin) ==
    [kind |-> kind, shape |-> shape, srcs |-> srcs, axis |-> axis,
     num |-> num, seq |-> seq, begin |-> begin]

Placeholder(shape) == Node("placeholder", shape, << >>, 0, 0, << >>, 0)

\* what an operator call returns: the nodes it built, or an error, and the
\* number of times it called tvm.compute
Built(nodes) == [status |-> "ok", nodes |-> nodes, builds |-> Len(nodes)]
Raised(builds) == [status |-> "error", nodes |-> << >>, builds |-> builds]

(***************************************************************************)
(* util.ravel_index / util.unravel_index (row-major).                      *)
(***************************************************************************)
Stride(shape, i) == Product(SubSeq(shape, i + 1, Len(shape)))

RECURSIVE RavelSum(_, _, _)
RavelSum(indices, shape, i) ==
    IF i > Len(shape) THEN 0
    ELSE indices[i] * Stride(shape, i) + RavelSum(indices, shape, i + 1)

ravel_index(indices, shape) == RavelSum(indices, shape, 1)

\* an index expression that divides by zero denotes no coordinate
NoIndex == -1

\* successive division and remainder against the suffix products, most
\* significant axis first
RECURSIVE UnravelFrom(_, _, _)
UnravelFrom(flat, shape, i) ==
    IF i > Len(shape) THEN << >>
    ELSE IF Stride(shape, i) = 0 THEN [j \in 1..(Len(shape) - i + 1) |-> NoIndex]
    ELSE <<flat \div Stride(shape, i)>>
             \o UnravelFrom(flat % Stride(shape, i), shape, i + 1)

unravel_index(idx, shape) == UnravelFrom(idx, shape, 1)

(***************************************************************************)
(* expand_dims                                                             *)
(***************************************************************************)
\* the normalisation concatenate and split use, one slot short of this one
expand_dims_axis_plain(rank, axis) == IF axis < 0 THEN rank + axis ELSE axis

expand_dims_axis(rank, axis) == IF axis < 0 THEN rank + axis + 1 ELSE axis

expand_dims_shape(shape, axis, num_newaxis) ==
    PySlice(shape, 0, axis) \o [i \in 1..num_newaxis |-> 1]
        \o PySlice(shape, axis, Len(shape))

expand_dims_compute(g, node, indices) ==
    Read(node.srcs[1],
         PySlice(indices, 0, node.axis)
             \o PySlice(indices, node.axis + node.num, Len(indices)))

(***************************************************************************)
(* transpose                                                               *)
(***************************************************************************)
\* the default without reversed(): tuple(range(ndim))
transpose_axes_ascending(ndim, axes) ==
    IF axes = << >> THEN [i \in 1..ndim |-> i - 1] ELSE axes

\* axes if axes else tuple(reversed(range(ndim))): None and () both give the
\* reversal
transpose_axes(ndim, axes) ==
    IF axes = << >> THEN [i \in 1..ndim |-> ndim - i] ELSE axes

transpose_shape(shape, axes) == [i \in 1..Len(axes) |-> ShapeAt(shape, axes[i])]

\* idx = [1] * len(axes); for i, k in enumerate(axes): idx[k] = indices[i]
transpose_idx(axes, indices) ==
    [p \in 1..Len(axes) |->
        LET writers == {i \in 1..Len(axes) : axes[i] = p - 1}
        IN  IF writers = {} THEN 1
            ELSE indices[CHOOSE i \in writers : \A j \in writers : j <= i]]

transpose_compute(g, node, indices) ==
    Read(node.srcs[1], transpose_idx(node.seq, indices))

(***************************************************************************)
(* reshape                                                                 *)
(***************************************************************************)
\* the two shapes exchanged between ravel_index and unravel_index
reshape_compute_exchanged(g, node, indices) ==
    Read(node.srcs[1],
         unravel_index(ravel_index(indices, g[node.srcs[1]].shape), node.shape))

reshape_compute(g, node, indices) ==
    Read(node.srcs[1],
         unravel_index(ravel_index(indices, node.shape), g[node.srcs[1]].shape))

(***************************************************************************)
(* concatenate                                                             *)
(***************************************************************************)
concatenate_axis(rank, axis) == IF axis < 0 THEN axis + rank ELSE axis

\* [shape[i] for i in range(0, axis)] + [sum(axis_sizes)]
\*     + [shape[i] for i in range(axis + 1, len(shape))]
concatenate_shape(shape, axis, axis_sizes) ==
    LET before == RangeSeq(0, axis)
        after  == RangeSeq(axis + 1, Len(shape))
    IN  [j \in 1..Len(before) |-> ShapeAt(shape, before[j])]
            \o <<SumSeq(axis_sizes)>>
            \o [j \in 1..Len(after) |-> ShapeAt(shape, after[j])]

\* the loop with each size taken off the output index itself, not off the
\* running index
RECURSIVE concatenate_loop_not_running(_, _, _, _, _)
concatenate_loop_not_running(node, indices, i, ind, ret) ==
    IF i >= Len(node.srcs) - 1 THEN ret
    ELSE LET ind2 == PyAt(indices, node.axis) - node.seq[i + 1]
         IN  concatenate_loop_not_running(node, indices, i + 1, ind2,
                 Select(ind2 >= 0,
                        Read(node.srcs[i + 2],
                             PySlice(indices, 0, node.axis) \o <<ind2>>
                                 \o PySlice(indices, node.axis + 1, Len(indices))),
                        ret))

\* the loop of _compute from its step i (0-based) on: ind and ret are the
\* running index and the running result
RECURSIVE concatenate_loop(_, _, _, _, _)
concatenate_loop(node, indices, i, ind, ret) ==
    IF i >= Len(node.srcs) - 1 THEN ret
    ELSE LET ind2 == ind - node.seq[i + 1]
         IN  concatenate_loop(node, indices, i + 1, ind2,
                 Select(ind2 >= 0,
                        Read(node.srcs[i + 2],
                             PySlice(indices, 0, node.axis) \o <<ind2>>
                                 \o PySlice(indices, node.axis + 1, Len(indices))),
                        ret))

concatenate_compute(g, node, indices) ==
    concatenate_loop(node, indices, 0, PyAt(indices, node.axis),
                     Read(node.srcs[1], indices))

(***************************************************************************)
(* split                                                                   *)
(***************************************************************************)
\* the normalisation of expand_dims, one slot further
split_axis_extended(rank, axis) == IF axis < 0 THEN axis + rank + 1 ELSE axis

split_axis(rank, axis) == IF axis < 0 THEN axis + rank ELSE axis

\* an int: [seg_size * i for i in range(indices_or_sections)]
split_sections_begin_ids(src_axis_size, sections) ==
    [j \in 1..sections |-> (src_axis_size \div sections) * (j - 1)]

\* a tuple or list: [0] + list(indices_or_sections)
split_indices_begin_ids(boundaries) == <<0>> \o boundaries

\* no check of the order
split_sorted_unchecked(boundaries) == TRUE

\* tuple(indices_or_sections) == tuple(sorted(indices_or_sections))
split_sorted(boundaries) == IsSorted(boundaries)

split_out_axis_size(src_axis_size, begin_ids, i) ==
    IF i = Len(begin_ids) THEN src_axis_size - begin_ids[i]
    ELSE begin_ids[i + 1] - begin_ids[i]

split_out_shape(shape, axis, out_axis_size) ==
    LET before == RangeSeq(0, axis)
        after  == RangeSeq(axis + 1, Len(shape))
    IN  [j \in 1..Len(before) |-> ShapeAt(shape, before[j])]
            \o <<out_axis_size>>
            \o [j \in 1..Len(after) |-> ShapeAt(shape, after[j])]

\* the offset of the segment left out
split_compute_no_offset(g, node, indices) ==
    Read(node.srcs[1],
         PySlice(indices, 0, node.axis)
             \o <<PyAt(indices, node.axis)>>
             \o PySlice(indices, node.axis + 1, Len(indices)))

split_compute(g, node, indices) ==
    Read(node.srcs[1],
         PySlice(indices, 0, node.axis)
             \o <<PyAt(indices, node.axis) + node.begin>>
             \o PySlice(indices, node.axis + 1, Len(indices)))

(***************************************************************************)
(* tvm.compute: the graph builder.  It calls fcompute on one index         *)
(* variable per axis of the shape; an exception fcompute raises (an index  *)
(* outside a Python sequence, a tensor called with a number of indices     *)
(* other than its rank) leaves the call without a node.                    *)
(***************************************************************************)
fcompute(g, node, indices) ==
    CASE node.kind = "expand_dims" -> expand_dims_compute(g, node, indices)
      [] node.kind = "transpose"   -> transpose_compute(g, node, indices)
      [] node.kind = "reshape"     -> reshape_compute(g, node, indices)
      [] node.kind = "concatenate" -> concatenate_compute(g, node, indices)
      [] node.kind = "split"       -> split_compute(g, node, indices)

\* the Python sequence accesses of fcompute stay inside their sequences
fcompute_index_ok(node, indices) ==
    CASE node.kind = "transpose" ->
            \A i \in 1..Len(node.seq) : PyIndexOk(node.seq, node.seq[i])
      [] node.kind \in {"concatenate", "split"} -> PyIndexOk(indices, node.axis)
      [] OTHER -> TRUE

\* Tensor.__call__: as many indices as the tensor has axes
tensor_call_ok(g, rd) == Len(rd.idx) = Len(g[rd.t].shape)

compute_ok(g, node) ==
    LET index_vars == [i \in 1..Len(node.shape) |-> 0]
    IN  /\ fcompute_index_ok(node, index_vars)
        /\ \A rd \in Reads(fcompute(g, node, index_vars)) : tensor_call_ok(g, rd)

\* the calls of tvm.compute an operator makes, in order, up to the first that
\* raises
compute(g, nodes) ==
    LET failing == {i \in 1..Len(nodes) : ~compute_ok(g, nodes[i])}
    IN  IF failing = {} THEN Built(nodes)
        ELSE Raised(CHOOSE i \in failing : \A j \in failing : i <= j)

(***************************************************************************)
(* The operators: what a call returns on the graph g.                      *)
(***************************************************************************)
expand_dims(g, a, axis, num_newaxis) ==
    LET ax == expand_dims_axis(Len(g[a].shape), axis)
    IN  compute(g, <<Node("expand_dims",
                          expand_dims_shape(g[a].shape, ax, num_newaxis),
                          <<a>>, ax, num_newaxis, << >>, 0)>>)

transpose(g, a, axes) ==
    LET ndim == Len(g[a].shape)
        ax   == transpose_axes(ndim, axes)
    IN  IF \E i \in 1..Len(ax) : ~ShapeIndexOk(g[a].shape, ax[i], "unused")
        THEN Raised(0)
        ELSE compute(g, <<Node("transpose", transpose_shape(g[a].shape, ax),
                               <<a>>, 0, 0, ax, 0)>>)

reshape(g, a, newshape) ==
    compute(g, <<Node("reshape", newshape, <<a>>, 0, 0, << >>, 0)>>)

concatenate(g, a_tuple, axis, negative_index) ==
    LET shape0 == g[a_tuple[1]].shape
        ax     == concatenate_axis(Len(shape0), axis)
    IN  IF ~(ax < Len(shape0)) THEN Raised(0)
        ELSE IF \E i \in 1..Len(a_tuple) :
                    ~ShapeIndexOk(g[a_tuple[i]].shape, ax, negative_index)
        THEN Raised(0)
        ELSE LET axis_sizes == [i \in 1..Len(a_tuple) |->
                                   ShapeAt(g[a_tuple[i]].shape, ax)]
             IN  compute(g, <<Node("concatenate",
                                   concatenate_shape(shape0, ax, axis_sizes),
                                   a_tuple, ax, 0, axis_sizes, 0)>>)

\* indices_or_sections is the int `sections` when is_int, else the tuple
\* `boundaries`
split(g, ary, is_int, sections, boundaries, axis, negative_index) ==
    LET shape == g[ary].shape
        ax    == split_axis(Len(shape), axis)
    IN  IF ~ShapeIndexOk(shape, ax, negative_index) THEN Raised(0)
        ELSE IF is_int /\ ~(sections > 0) THEN Raised(0)
        ELSE IF is_int /\ ~(ShapeAt(shape, ax) % sections = 0) THEN Raised(0)
        ELSE IF ~is_int /\ ~split_sorted(boundaries) THEN Raised(0)
        ELSE LET src_axis_size == ShapeAt(shape, ax)
                 begin_ids == IF is_int
                              THEN split_sections_begin_ids(src_axis_size, sections)
                              ELSE split_indices_begin_ids(boundaries)
             IN  compute(g, [i \in 1..Len(begin_ids) |->
                     Node("split",
                          split_out_shape(shape, ax,
                              split_out_axis_size(src_axis_size, begin_ids, i)),
                          <<ary>>, ax, 0, << >>, begin_ids[i])])

(***************************************************************************)
(* The value of a tensor at a coordinate: the placeholder element it is,   *)
(* following at each select the branch its condition chooses.              *)
(***************************************************************************)
Undefined == [t |-> 0, at |-> << >>]

RECURSIVE Value(_, _, _)
Value(g, t, idx) ==
    IF ~InBounds(idx, g[t].shape) THEN Undefined
    ELSE IF g[t].kind = "placeholder" THEN [t |-> t, at |-> idx]
    ELSE LET rd == Chosen(fcompute(g, g[t], idx))
         IN  Value(g, rd.t, rd.idx)

(***************************************************************************)
(* State: the graph built so far and the operator calls made on it.        *)
(***************************************************************************)
Call(op, srcs, axis, num, seq, is_int, negative_index, res) ==
    [op |-> op, srcs |-> srcs, axis |-> axis, num |-> num, seq |-> seq,
     is_int |-> is_int, negative_index |-> negative_index,
     status |-> res.status, builds |-> res.builds,
     outs |-> [i \in 1..Len(res.nodes) |-> Len(graph) + i]]

Return(call, res) ==
    /\ graph' = graph \o res.nodes
    /\ calls' = Append(calls, call)

\* an axis argument: every axis of the rank, negative or not, and two values
\* beyond each end
AxisArgs(rank) == (-(rank + 2))..(rank + 1)

\* what the shape container does with a negative index, where one reaches it
NegativeIndex(rank, axis) ==
    IF axis < 0 /\ axis + rank < 0 THEN {"wrap", "raise"} ELSE {"unused"}

ExpandDims(a) ==
    \E axis \in (-(Len(graph[a].shape) + 1))..Len(graph[a].shape),
       num_newaxis \in 1..MaxNewAxis :
        LET res == expand_dims(graph, a, axis, num_newaxis)
        IN  Return(Call("expand_dims", <<a>>, axis, num_newaxis, << >>,
                        FALSE, "unused", res), res)

Transpose(a) ==
    \E axes \in SeqsUpTo(0..MaxRank, MaxRank) :
        LET res == transpose(graph, a, axes)
        IN  Return(Call("transpose", <<a>>, 0, 0, axes, FALSE, "unused", res), res)

Reshape(a) ==
    \E newshape \in Shapes :
        LET res == reshape(graph, a, newshape)
        IN  Return(Call("reshape", <<a>>, 0, 0, newshape, FALSE, "unused", res), res)

Concatenate(a_tuple) ==
    \E axis \in AxisArgs(Len(graph[a_tuple[1]].shape)) :
      \E negative_index \in NegativeIndex(Len(graph[a_tuple[1]].shape), axis) :
        LET res == concatenate(graph, a_tuple, axis, negative_index)
        IN  Return(Call("concatenate", a_tuple, axis, 0, << >>, FALSE,
                        negative_index, res), res)

SplitSections(ary) ==
    \E sections \in 0..(MaxDim + 1),
       axis \in AxisArgs(Len(graph[ary].shape)) :
      \E negative_index \in NegativeIndex(Len(graph[ary].shape), axis) :
        LET res == split(graph, ary, TRUE, sections, << >>, axis, negative_index)
        IN  Return(Call("split", <<ary>>, axis, sections, << >>, TRUE,
                        negative_index, res), res)

SplitIndices(ary) ==
    \E boundaries \in SeqsUpTo(0..(MaxDim + 1), MaxBoundaries),
       axis \in AxisArgs(Len(graph[ary].shape)) :
      \E negative_index \in NegativeIndex(Len(graph[ary].shape), axis) :
        LET res == split(graph, ary, FALSE, 0, boundaries, axis, negative_index)
        IN  Return(Call("split", <<ary>>, axis, 0, boundaries, FALSE,
                        negative_index, res), res)

(***************************************************************************)
(* Specifications: the inputs are placeholders; an operator is called on   *)
(* them, and where a composition is of interest, a second on its result.   *)
(***************************************************************************)
InitOne ==
    /\ graph \in {<<Placeholder(shape)>> : shape \in Shapes}
    /\ calls = << >>

\* tensors for concatenate: of one rank, agreeing on every axis but one, where
\* each has a size of its own
InitTuple ==
    /\ \E base \in Shapes, n \in 1..MaxInputs :
         \E k \in (IF base = << >> THEN {0} ELSE 1..Len(base)),
            sizes \in [1..n -> 0..MaxSize] :
             graph = [i \in 1..n |->
                        Placeholder([j \in 1..Len(base) |->
                                        IF j = k THEN sizes[i] ELSE base[j]])]
    /\ calls = << >>

First == calls = << >>
Second(op) == Len(calls) = 1 /\ calls[1].op = op /\ calls[1].status = "ok"

NextExpandDims == First /\ ExpandDims(1)
SpecExpandDims == InitOne /\ [][NextExpandDims]_vars

NextTranspose ==
    \/ First /\ Transpose(1)
    \/ Second("transpose") /\ Transpose(calls[1].outs[1])
SpecTranspose == InitOne /\ [][NextTranspose]_vars

NextReshape == First /\ Reshape(1)
SpecReshape == InitOne /\ [][NextReshape]_vars

NextConcatenate == First /\ Concatenate([i \in 1..Len(graph) |-> i])
SpecConcatenate == InitTuple /\ [][NextConcatenate]_vars

NextSplit ==
    \/ First /\ SplitSections(1)
    \/ First /\ SplitIndices(1)
    \/ Second("split") /\ Concatenate(calls[1].outs)
SpecSplit == InitOne /\ [][NextSplit]_vars

(***************************************************************************)
(* Properties.                                                             *)
(***************************************************************************)
\* the element of placeholder t at coordinate idx
Element(t, idx) == [t |-> t, at |-> idx]

\* the read an output node makes at an output coordinate
ReadAt(o, out) == Chosen(fcompute(graph, graph[o], out))

\* c comes before d in row-major order: at the first axis where they differ,
\* c is the smaller
RowMajorBefore(c, d) ==
    \E i \in 1..Len(c) : c[i] < d[i] /\ \A j \in 1..(i - 1) : c[j] = d[j]

\* the position of coordinate c in the row-major enumeration of a shape
FlatPosition(c, shape) == Cardinality({d \in Coords(shape) : RowMajorBefore(d, c)})

IsPermutation(axes, r) ==
    /\ Len(axes) = r
    /\ \A k \in 0..(r - 1) : \E i \in 1..r : axes[i] = k

\* C5: expand_dims with num_newaxis = n >= 1 and an axis in [-(r+1), r] (a
\* negative axis standing for r + axis + 1) returns a tensor of rank r + n
\* whose shape is S with n entries of size 1 inserted at that position, and
\* whose value at every output coordinate is `a` at the r remaining
\* coordinates in their order.
C5_ExpandDimsInsertsUnitAxes ==
    \A c \in 1..Len(calls) :
        calls[c].op = "expand_dims" =>
            LET a == calls[c].srcs[1]
                S == graph[a].shape
                r == Len(S)
                n == calls[c].num
                p == IF calls[c].axis < 0 THEN r + calls[c].axis + 1
                     ELSE calls[c].axis
            IN  /\ calls[c].status = "ok"
                /\ Len(calls[c].outs) = 1
                /\ LET o == calls[c].outs[1]
                   IN  /\ Len(graph[o].shape) = r + n
                       /\ \A j \in 1..(r + n) :
                              graph[o].shape[j] =
                                  IF j <= p THEN S[j]
                                  ELSE IF j <= p + n THEN 1 ELSE S[j - n]
                       /\ \A out \in Coords(graph[o].shape) :
                              Value(graph, o, out) =
                                  Element(a, [j \in 1..r |->
                                      IF j <= p THEN out[j] ELSE out[j + n]])

\* a negative axis: expand_dims(a, -2, 2) on shape (2,3) gives (2,1,1,3)
C5_Witness ==
    /\ Len(calls) = 1
    /\ calls[1].op = "expand_dims"
    /\ calls[1].axis = -2
    /\ calls[1].num = 2
    /\ graph[1].shape = <<2, 3>>
    /\ calls[1].status = "ok"
    /\ graph[2].shape = <<2, 1, 1, 3>>
    /\ Value(graph, 2, <<1, 0, 0, 2>>) = Element(1, <<1, 2>>)

\* C4: with default axes a transpose has shape S[axes[i]] and reads `a` at
\* idx with idx[axes[i]] = out[i], axes = reverse(range(r)); two of them in
\* a row have the shape of `a` and at every coordinate the value of `a` at
\* that coordinate.
C4_TransposeInvolution ==
    /\ \A c \in 1..Len(calls) :
          (calls[c].op = "transpose" /\ calls[c].seq = << >>) =>
              LET a == calls[c].srcs[1]
                  S == graph[a].shape
                  r == Len(S)
              IN  /\ calls[c].status = "ok"
                  /\ Len(calls[c].outs) = 1
                  /\ LET o == calls[c].outs[1]
                     IN  /\ Len(graph[o].shape) = r
                         /\ \A i \in 1..r : graph[o].shape[i] = S[r - i + 1]
                         /\ \A out \in Coords(graph[o].shape) :
                                /\ ReadAt(o, out).t = a
                                /\ Len(ReadAt(o, out).idx) = r
                                /\ \A i \in 1..r :
                                       ReadAt(o, out).idx[r - i + 1] = out[i]
    /\ (/\ Len(calls) = 2
        /\ calls[1].op = "transpose" /\ calls[1].seq = << >>
        /\ calls[2].op = "transpose" /\ calls[2].seq = << >>
        /\ calls[2].srcs = calls[1].outs)
       => /\ calls[2].status = "ok"
          /\ LET a == calls[1].srcs[1]
                 o == calls[2].outs[1]
             IN  /\ graph[o].shape = graph[a].shape
                 /\ \A out \in Coords(graph[a].shape) :
                        Value(graph, o, out) = Element(a, out)

\* transpose(transpose(a)) on shape (2,3): (3,2) in between, (2,3) again
C4_Witness ==
    /\ Len(calls) = 2
    /\ calls[1].op = "transpose" /\ calls[1].seq = << >>
    /\ calls[2].op = "transpose" /\ calls[2].seq = << >>
    /\ calls[2].srcs = calls[1].outs
    /\ calls[2].status = "ok"
    /\ graph[1].shape = <<2, 3>>
    /\ graph[2].shape = <<3, 2>>
    /\ graph[3].shape = <<2, 3>>
    /\ Value(graph, 3, <<1, 2>>) = Element(1, <<1, 2>>)

\* C3: reshape of shape S to a newshape of the same number of elements: for
\* every coordinate out within newshape, idx = unravel(ravel(out, newshape),
\* S) lies within S, ravel(idx, S) = ravel(out, newshape), idx is the
\* coordinate of S at the row-major position of out, and the value at out is
\* `a` at idx.
C3_ReshapeKeepsRowMajorPosition ==
    \A c \in 1..Len(calls) :
        (/\ calls[c].op = "reshape"
         /\ Product(calls[c].seq) = Product(graph[calls[c].srcs[1]].shape)) =>
            LET a == calls[c].srcs[1]
                S == graph[a].shape
                newshape == calls[c].seq
            IN  /\ calls[c].status = "ok"
                /\ Len(calls[c].outs) = 1
                /\ graph[calls[c].outs[1]].shape = newshape
                /\ \A out \in Coords(newshape) :
                       LET idx == unravel_index(ravel_index(out, newshape), S)
                       IN  /\ InBounds(idx, S)
                           /\ ravel_index(idx, S) = ravel_index(out, newshape)
                           /\ FlatPosition(idx, S) = FlatPosition(out, newshape)
                           /\ ReadAt(calls[c].outs[1], out).idx \in Coords(S)
                           /\ FlatPosition(ReadAt(calls[c].outs[1], out).idx, S)
                                  = FlatPosition(out, newshape)
                           /\ Value(graph, calls[c].outs[1], out) = Element(a, idx)

\* shape (2,3) reshaped to (3,2): output (2,1) is input (1,2), flat index 5
C3_Witness ==
    /\ Len(calls) = 1
    /\ calls[1].op = "reshape"
    /\ graph[1].shape = <<2, 3>>
    /\ calls[1].seq = <<3, 2>>
    /\ calls[1].status = "ok"
    /\ Value(graph, 2, <<2, 1>>) = Element(1, <<1, 2>>)
    /\ ravel_index(<<2, 1>>, <<3, 2>>) = 5

\* the sizes s_0..s_{j-1} before segment j (1-based j)
SizesBefore(sizes, j) == SumSeq(SubSeq(sizes, 1, j - 1))

\* the axis an argument stands for in concatenate and split
Normalized(axis, rank) == IF axis < 0 THEN axis + rank ELSE axis

\* the tensors have one rank and agree on every axis but axis k (0-based)
AgreeOffAxis(a_tuple, k) ==
    \A i \in 1..Len(a_tuple) :
        /\ Len(graph[a_tuple[i]].shape) = Len(graph[a_tuple[1]].shape)
        /\ \A j \in 1..Len(graph[a_tuple[1]].shape) :
              j # k + 1 => graph[a_tuple[i]].shape[j] = graph[a_tuple[1]].shape[j]

\* C1: concatenate of n >= 1 tensors that agree off axis k returns the first
\* tensor's shape with axis k replaced by s_0+...+s_{n-1}; at every output
\* coordinate the cascade of n-1 selects chooses input j at `out` with out[k]
\* less s_0+...+s_{j-1}, j being the one segment out[k] falls in; with n = 1
\* the expression is the read of the input at `out`.
C1_ConcatenatePartition ==
    \A c \in 1..Len(calls) :
        (/\ calls[c].op = "concatenate"
         /\ Normalized(calls[c].axis, Len(graph[calls[c].srcs[1]].shape)) >= 0
         /\ Normalized(calls[c].axis, Len(graph[calls[c].srcs[1]].shape))
                < Len(graph[calls[c].srcs[1]].shape)
         /\ AgreeOffAxis(calls[c].srcs,
                Normalized(calls[c].axis, Len(graph[calls[c].srcs[1]].shape)))) =>
            LET a_tuple == calls[c].srcs
                n == Len(a_tuple)
                S == graph[a_tuple[1]].shape
                k == Normalized(calls[c].axis, Len(S)) + 1
                sizes == [i \in 1..n |-> graph[a_tuple[i]].shape[k]]
            IN  /\ calls[c].status = "ok"
                /\ Len(calls[c].outs) = 1
                /\ LET o == calls[c].outs[1]
                   IN  /\ graph[o].shape = [S EXCEPT ![k] = SumSeq(sizes)]
                       /\ \A out \in Coords(graph[o].shape) :
                            LET segs == {j \in 1..n :
                                           /\ SizesBefore(sizes, j) <= out[k]
                                           /\ out[k] < SizesBefore(sizes, j + 1)}
                                x == fcompute(graph, graph[o], out)
                            IN  /\ Cardinality(segs) = 1
                                /\ Selects(x) = n - 1
                                /\ n = 1 => x = Read(a_tuple[1], out)
                                /\ \A j \in segs :
                                     /\ Chosen(x) =
                                          [t |-> a_tuple[j],
                                           idx |-> [out EXCEPT ![k] =
                                                      out[k] - SizesBefore(sizes, j)]]
                                     /\ Value(graph, o, out) =
                                          Element(a_tuple[j],
                                                  [out EXCEPT ![k] =
                                                      out[k] - SizesBefore(sizes, j)])

\* shapes (2,1), (2,0) and (2,2) on axis 1 give (2,3); column 1 is the third
\* tensor's column 0
C1_Witness ==
    /\ Len(calls) = 1
    /\ calls[1].op = "concatenate"
    /\ calls[1].axis = -1
    /\ Len(graph) = 4
    /\ graph[1].shape = <<2, 1>>
    /\ graph[2].shape = <<2, 0>>
    /\ graph[3].shape = <<2, 2>>
    /\ calls[1].status = "ok"
    /\ graph[4].shape = <<2, 3>>
    /\ Value(graph, 4, <<1, 1>>) = Element(3, <<1, 0>>)
    /\ Value(graph, 4, <<1, 0>>) = Element(1, <<1, 0>>)

\* C10: every read of a source tensor in the expression an output tensor's
\* coordinate function builds, at any coordinate within the output shape,
\* is within the source tensor's shape; for concatenate these are the reads
\* of all n inputs in the select cascade.
C10_EveryReadInBounds ==
    \A c \in 1..Len(calls) :
        calls[c].status = "ok" =>
            \A i \in 1..Len(calls[c].outs) :
                LET o == calls[c].outs[i]
                IN  \A out \in Coords(graph[o].shape) :
                        \A rd \in Reads(fcompute(graph, graph[o], out)) :
                            InBounds(rd.idx, graph[rd.t].shape)

AxisInRange(axis, rank) ==
    Normalized(axis, rank) >= 0 /\ Normalized(axis, rank) < rank

StrictlyAscending(b) == \A i \in 1..(Len(b) - 1) : b[i] < b[i + 1]

\* a count n > 0 dividing the size of the axis, or strictly increasing
\* boundaries inside the axis
ValidSplit(call) ==
    LET S == graph[call.srcs[1]].shape
    IN  /\ call.op = "split"
        /\ AxisInRange(call.axis, Len(S))
        /\ LET size == S[Normalized(call.axis, Len(S)) + 1]
           IN  IF call.is_int
               THEN call.num > 0 /\ size % call.num = 0
               ELSE /\ StrictlyAscending(call.seq)
                    /\ \A i \in 1..Len(call.seq) :
                          0 <= call.seq[i] /\ call.seq[i] <= size

\* C2: a valid split returns its segments, and concatenate of them on the
\* same axis has the shape of `a` and at every coordinate the value of `a`
\* at that coordinate.
C2_SplitThenConcatenate ==
    /\ \A c \in 1..Len(calls) :
          ValidSplit(calls[c]) =>
              /\ calls[c].status = "ok"
              /\ Len(calls[c].outs) =
                     IF calls[c].is_int THEN calls[c].num ELSE Len(calls[c].seq) + 1
    /\ (/\ Len(calls) = 2
        /\ ValidSplit(calls[1])
        /\ calls[2].op = "concatenate"
        /\ calls[2].srcs = calls[1].outs
        /\ Normalized(calls[2].axis, Len(graph[1].shape))
               = Normalized(calls[1].axis, Len(graph[1].shape)))
       => /\ calls[2].status = "ok"
          /\ Len(calls[2].outs) = 1
          /\ LET a == calls[1].srcs[1]
                 o == calls[2].outs[1]
             IN  /\ graph[o].shape = graph[a].shape
                 /\ \A out \in Coords(graph[a].shape) :
                        Value(graph, o, out) = Element(a, out)

\* shape (2,3) split on axis 1 into 3 parts gives three (2,1) tensors, and
\* their concatenation on axis 1 is the tensor again
C2_Witness ==
    /\ Len(calls) = 2
    /\ calls[1].op = "split" /\ calls[1].is_int /\ calls[1].num = 3
    /\ calls[1].axis = 1
    /\ graph[1].shape = <<2, 3>>
    /\ calls[1].outs = <<2, 3, 4>>
    /\ \A o \in 2..4 : graph[o].shape = <<2, 1>>
    /\ calls[2].op = "concatenate" /\ calls[2].axis = 1
    /\ calls[2].srcs = <<2, 3, 4>>
    /\ calls[2].status = "ok"
    /\ graph[5].shape = <<2, 3>>
    /\ Value(graph, 5, <<1, 2>>) = Element(1, <<1, 2>>)

\* C6 as stated, on an axis the tensor has: a split whose boundary sequence
\* is not strictly ascending (some boundary less than or equal to its
\* predecessor) fails, before tvm.compute is called for any output.
C6_NotStrictlyAscendingFails ==
    \A c \in 1..Len(calls) :
        (/\ calls[c].op = "split" /\ ~calls[c].is_int
         /\ AxisInRange(calls[c].axis, Len(graph[calls[c].srcs[1]].shape))
         /\ ~StrictlyAscending(calls[c].seq))
        => calls[c].status = "error" /\ calls[c].builds = 0

\* C6 amended: a split whose boundary sequence is not sorted (some boundary
\* less than its predecessor) fails, before tvm.compute is called for any
\* output.
C6_UnsortedFails ==
    \A c \in 1..Len(calls) :
        (/\ calls[c].op = "split" /\ ~calls[c].is_int
         /\ \E i \in 1..(Len(calls[c].seq) - 1) :
               calls[c].seq[i + 1] < calls[c].seq[i])
        => /\ calls[c].status = "error"
           /\ calls[c].builds = 0
           /\ calls[c].outs = << >>
           /\ Len(graph) = 1

\* boundaries (3,1) on an axis that exists
C6_Witness ==
    /\ Len(calls) = 1
    /\ calls[1].op = "split" /\ ~calls[1].is_int
    /\ calls[1].seq = <<3, 1>>
    /\ calls[1].axis = 0
    /\ graph[1].shape = <<3>>
    /\ calls[1].status = "error"
    /\ calls[1].builds = 0

\* C8: a concatenate or split whose axis, after axis + rank for a negative
\* axis, is outside [0, rank) fails and returns no tensor: both axis >= rank
\* and axis < -rank.
C8_AxisOutOfRangeFails ==
    \A c \in 1..Len(calls) :
        (/\ calls[c].op \in {"concatenate", "split"}
         /\ ~AxisInRange(calls[c].axis, Len(graph[calls[c].srcs[1]].shape)))
        => /\ calls[c].status = "error"
           /\ calls[c].outs = << >>

\* split with axis = -rank - 1 where the shape container counts a negative
\* index from the end: the failure is the tensor call inside tvm.compute
C8_Witness ==
    /\ Len(calls) = 1
    /\ calls[1].op = "split"
    /\ graph[1].shape = <<2, 3>>
    /\ calls[1].axis = -3
    /\ calls[1].negative_index = "wrap"
    /\ calls[1].status = "error"
    /\ calls[1].builds = 1

\* C7: a reshape with product(newshape) # product(S) is rejected with an
\* error and tvm.compute is not called.
C7_ReshapeMismatchRejected ==
    \A c \in 1..Len(calls) :
        (/\ calls[c].op = "reshape"
         /\ Product(calls[c].seq) # Product(graph[calls[c].srcs[1]].shape))
        => calls[c].status = "error" /\ calls[c].builds = 0

\* C9: a transpose with explicit axes that are not a permutation of [0, r)
\* fails with an error.
C9_NonPermutationFails ==
    \A c \in 1..Len(calls) :
        (/\ calls[c].op = "transpose"
         /\ calls[c].seq # << >>
         /\ ~IsPermutation(calls[c].seq, Len(graph[calls[c].srcs[1]].shape)))
        => calls[c].status = "error"

=============================================================================
